---------------------------- MODULE Spec2Model ----------------------------
(***************************************************************************)
(* A model of src/utils.py: the logger factory setup_logger, the           *)
(* environment loader get_env_config and the directory bootstrapper        *)
(* ensure_directories, over the process-wide state they share: the process *)
(* environment, the logging registry and the filesystem.                   *)
(*                                                                         *)
(* Representation.  A Python str is a sequence of one-character strings    *)
(* (<<"a", ",", "b">> is "a,b"), so that split, strip, lower and int work  *)
(* on characters as the interpreter does.  A filesystem path is a sequence *)
(* of components, absolute when its first component is "/"; the empty      *)
(* sequence is the empty str "".  None is the record [some |-> FALSE].     *)
(***************************************************************************)
EXTENDS Integers, Sequences, FiniteSets, TLC

VARIABLES
    env,        \* os.environ: a function from the names that are set to their values
    dotenv,     \* the .env file of the working directory: None, or its key/value pairs
    cwd,        \* os.getcwd()
    dirs,       \* the directories that exist (absolute paths)
    files,      \* the regular files that exist (absolute paths)
    loggers,    \* logging's registry: logger name -> [level, handlers, last]
    bootstrap,  \* the last ensure_directories call that returned: None, or what
                \* it returned, whether the deployment marker was set then, and
                \* whether a call had returned before it under the same marker
    ret         \* the outcome of the last call: what it returned or raised

vars == <<env, dotenv, cwd, dirs, files, loggers, bootstrap, ret>>

\* Longest SCRIPT_FILE_NAMES value the environment loader is run on.
MaxLen == 3

None == [some |-> FALSE]
Some(v) == [some |-> TRUE, val |-> v]

-----------------------------------------------------------------------------
(* str methods                                                             *)

\* The characters str.strip() and int() treat as whitespace.
Whitespace == {" ", "\t"}

LStrip(s) ==
    LET first == {i \in 1..Len(s) : s[i] \notin Whitespace}
    IN  IF first = {} THEN <<>>
        ELSE SubSeq(s, CHOOSE i \in first : \A j \in first : i <= j, Len(s))

RStrip(s) ==
    LET last == {i \in 1..Len(s) : s[i] \notin Whitespace}
    IN  IF last = {} THEN <<>>
        ELSE SubSeq(s, 1, CHOOSE i \in last : \A j \in last : j <= i)

\* s.strip()
Strip(s) == RStrip(LStrip(s))

RECURSIVE Split(_, _)
\* s.split(sep) for a one-character sep: the pieces between the separators,
\* empty pieces included ("a,,b" gives "a", "", "b"; "" gives one empty piece)
Split(s, sep) ==
    LET at == {i \in 1..Len(s) : s[i] = sep}
    IN  IF at = {} THEN <<s>>
        ELSE LET i == CHOOSE k \in at : \A j \in at : k <= j
             IN  <<SubSeq(s, 1, i - 1)>> \o Split(SubSeq(s, i + 1, Len(s)), sep)

LowerChar(c) ==
    CASE c = "Y" -> "y" [] c = "E" -> "e" [] c = "S" -> "s"
      [] c = "T" -> "t" [] c = "R" -> "r" [] c = "U" -> "u"
      [] c = "N" -> "n" [] c = "O" -> "o"
      [] OTHER -> c

\* s.lower()
Lower(s) == [i \in 1..Len(s) |-> LowerChar(s[i])]

Digits == {"0", "1", "2", "3", "4", "5", "6", "7", "8", "9"}

DigitVal(c) ==
    CASE c = "0" -> 0 [] c = "1" -> 1 [] c = "2" -> 2 [] c = "3" -> 3
      [] c = "4" -> 4 [] c = "5" -> 5 [] c = "6" -> 6 [] c = "7" -> 7
      [] c = "8" -> 8 [] c = "9" -> 9

RECURSIVE DecimalValue(_)
\* the value of a sequence of digits and underscores, underscores skipped
DecimalValue(s) ==
    IF s = <<>> THEN 0
    ELSE LET init == SubSeq(s, 1, Len(s) - 1)
             c    == s[Len(s)]
         IN  IF c = "_" THEN DecimalValue(init)
             ELSE 10 * DecimalValue(init) + DigitVal(c)

\* int(s): surrounding whitespace is dropped, one sign is allowed, and the rest
\* is digits with single underscores between them; anything else is a ValueError
PyInt(s) ==
    LET t      == Strip(s)
        signed == t # <<>> /\ t[1] \in {"+", "-"}
        body   == IF signed THEN Tail(t) ELSE t
        wellFormed ==
            /\ body # <<>>
            /\ \A i \in 1..Len(body) : body[i] \in Digits \cup {"_"}
            /\ body[1] # "_"
            /\ body[Len(body)] # "_"
            /\ \A i \in 1..(Len(body) - 1) : ~(body[i] = "_" /\ body[i + 1] = "_")
    IN  IF ~wellFormed THEN [raised |-> "ValueError"]
        ELSE [raised |-> "none",
              value  |-> IF signed /\ t[1] = "-" THEN 0 - DecimalValue(body)
                         ELSE DecimalValue(body)]

-----------------------------------------------------------------------------
(* the process environment                                                 *)

IsSet(e, k) == k \in DOMAIN e

\* os.getenv(k, default)
GetEnv(e, k, default) == IF IsSet(e, k) THEN e[k] ELSE default

\* load_dotenv(): every pair of the file whose key the environment does not
\* hold yet is added; a variable that is already set keeps its value
LoadDotenv(e, file) ==
    [k \in DOMAIN e \cup DOMAIN file |-> IF k \in DOMAIN e THEN e[k] ELSE file[k]]


-----------------------------------------------------------------------------
(* get_env_config                                                          *)

MaxRetriesFallback == 10
RetryDelayFallback == 5

ScriptNamesMutant(value) == [i \in 1..Len(Split(value, ",")) |-> Strip(Split(value, ",")[i])]

\* [s.strip() for s in script_file_names.split(",") if s.strip()]
ScriptNames(value) ==
    LET pieces == Split(value, ",")
        kept   == SelectSeq(pieces, LAMBDA s : Strip(s) # <<>>)
    IN  [i \in 1..Len(kept) |-> Strip(kept[i])]

UploadToBhMutant(e) == GetEnv(e, "UPLOAD_TO_BLOODHOUND", <<"f", "a", "l", "s", "e">>)
                           \in {<<"1">>, <<"t", "r", "u", "e">>, <<"y", "e", "s">>}

\* os.getenv("UPLOAD_TO_BLOODHOUND", "false").lower() in ("1", "true", "yes")
UploadToBh(e) ==
    Lower(GetEnv(e, "UPLOAD_TO_BLOODHOUND", <<"f", "a", "l", "s", "e">>))
        \in {<<"1">>, <<"t", "r", "u", "e">>, <<"y", "e", "s">>}

MaxRetriesMutant(e) ==
    LET parsed == PyInt(GetEnv(e, "MAX_RETRIES", <<"1", "0">>))
    IN  IF parsed.raised = "ValueError" THEN RetryDelayFallback ELSE parsed.value

\* try: int(os.getenv("MAX_RETRIES", "10")) except ValueError: 10
MaxRetries(e) ==
    LET parsed == PyInt(GetEnv(e, "MAX_RETRIES", <<"1", "0">>))
    IN  IF parsed.raised = "ValueError" THEN MaxRetriesFallback ELSE parsed.value

\* try: int(os.getenv("RETRY_DELAY", "5")) except ValueError: 5
RetryDelay(e) ==
    LET parsed == PyInt(GetEnv(e, "RETRY_DELAY", <<"5">>))
    IN  IF parsed.raised = "ValueError" THEN RetryDelayFallback ELSE parsed.value

MissingMutant(e) == ~IsSet(e, "SCRIPT_FILE_NAMES")

MissingStrict(e) ==
    \/ ~IsSet(e, "SCRIPT_FILE_NAMES")
    \/ Strip(e["SCRIPT_FILE_NAMES"]) \in {<<>>, <<",">>}

\* not script_file_names: the variable is unset (None) or the empty str
Missing(e) == ~IsSet(e, "SCRIPT_FILE_NAMES") \/ e["SCRIPT_FILE_NAMES"] = <<>>

GetEnvConfig ==
    LET loaded == IF dotenv.some THEN LoadDotenv(env, dotenv.val) ELSE env
    IN  /\ env' = loaded
        /\ ret' = IF Missing(loaded)
                  THEN [op |-> "get_env_config", raised |-> "ValueError"]
                  ELSE [op |-> "get_env_config", raised |-> "none",
                        value |-> [script_names |-> ScriptNames(loaded["SCRIPT_FILE_NAMES"]),
                                   upload_to_bh |-> UploadToBh(loaded),
                                   max_retries  |-> MaxRetries(loaded),
                                   retry_delay  |-> RetryDelay(loaded)]]
        /\ UNCHANGED <<dotenv, cwd, dirs, files, loggers, bootstrap>>

-----------------------------------------------------------------------------
(* the filesystem                                                          *)

Root == <<"/">>

Parent(p) == SubSeq(p, 1, Len(p) - 1)

\* os.path.join(base, name) for a one-component relative name
Join(base, name) == Append(base, name)

\* os.path.abspath(p)
AbsPath(p) == IF p # <<>> /\ p[1] = "/" THEN p ELSE cwd \o p

\* open(path, "a"): the error it raises, or "none" when the file is opened
\* (and created when it did not exist)
OpenAppend(d, f, path) ==
    IF path \in d THEN "IsADirectoryError"
    ELSE IF Parent(path) \in f THEN "NotADirectoryError"
    ELSE IF Parent(path) \notin d THEN "FileNotFoundError"
    ELSE "none"

\* os.mkdir(name)
Mkdir(d, f, name) ==
    IF name \in d \cup f THEN "FileExistsError"
    ELSE IF Parent(name) \in f THEN "NotADirectoryError"
    ELSE IF Parent(name) \notin d THEN "FileNotFoundError"
    ELSE "none"

MakeDirsStrict(d, f, name) ==
    IF Mkdir(d, f, name) = "none" THEN [dirs |-> d \cup {name}, raised |-> "none"]
    ELSE [dirs |-> d, raised |-> Mkdir(d, f, name)]

RECURSIVE MakeDirs(_, _, _)
\* os.makedirs(name, exist_ok=True): the missing parents are made first; a
\* failing mkdir is forgiven only when name is a directory already
MakeDirs(d, f, name) ==
    LET head == Parent(name)
        up   == IF Len(name) > 1 /\ head \notin d \cup f
                THEN MakeDirs(d, f, head)
                ELSE [dirs |-> d, raised |-> "none"]
        made == Mkdir(up.dirs, f, name)
    IN  IF up.raised # "none" THEN up
        ELSE IF made = "none" THEN [dirs |-> up.dirs \cup {name}, raised |-> "none"]
        ELSE IF name \in up.dirs THEN [dirs |-> up.dirs, raised |-> "none"]
        ELSE [dirs |-> up.dirs, raised |-> made]

-----------------------------------------------------------------------------
(* setup_logger                                                            *)

LoggerNames == {"collector", "uploader"}

\* A logger logging.getLogger has only just created.  last records the last
\* setup_logger call on the name: its logfile argument, what it raised, and
\* how many handlers the logger held when it was called.
NoLogger == [level |-> None, handlers |-> <<>>, last |-> None]

DEBUG == 10
INFO == 20
Levels == {DEBUG, INFO, 40}

\* A handler; fresh records that the last setup_logger call on its logger
\* made it.
StreamHandlerVerbose == [kind |-> "StreamHandler", level |-> DEBUG, baseFilename |-> <<>>,
                         fresh |-> TRUE]

StreamHandler == [kind |-> "StreamHandler", level |-> INFO, baseFilename |-> <<>>,
                  fresh |-> TRUE]
FileHandler(path) == [kind |-> "FileHandler", level |-> DEBUG, baseFilename |-> path,
                      fresh |-> TRUE]

Aged(handlers) == [i \in 1..Len(handlers) |-> [handlers[i] EXCEPT !.fresh = FALSE]]

ClearedMutant(handlers) == handlers

ClearedConsoleOnly(handlers) == SelectSeq(handlers, LAMBDA h : h.kind # "StreamHandler")

\* if logger.handlers: logger.handlers = []
Cleared(handlers) == IF handlers # <<>> THEN <<>> ELSE handlers

\* if logfile: None and the empty str attach no file handler
Truthy(logfile) == logfile.some /\ logfile.val # <<>>

SetupLogger(name, logfile) ==
    LET old     == Aged(loggers[name].handlers)
        console == Append(Cleared(old), StreamHandler)
        path    == AbsPath(logfile.val)
        opened  == IF Truthy(logfile) THEN OpenAppend(dirs, files, path) ELSE "none"
        call    == [logfile |-> logfile, raised |-> opened, held |-> Len(old)]
    IN  /\ loggers' = [loggers EXCEPT ![name] =
                          [level    |-> Some(DEBUG),
                           handlers |-> IF Truthy(logfile) /\ opened = "none"
                                        THEN Append(console, FileHandler(path))
                                        ELSE console,
                           last     |-> Some(call)]]
        /\ files' = IF Truthy(logfile) /\ opened = "none" THEN files \cup {path} ELSE files
        /\ ret' = [op |-> "setup_logger", name |-> name, raised |-> opened]
        /\ UNCHANGED <<env, dotenv, cwd, dirs, bootstrap>>

\* logger.log(level, msg) on a logger setup_logger returned: the logger takes
\* the record when level >= logger.level, and hands it to each handler h with
\* level >= h.level
Log(name, level) ==
    LET logger   == loggers[name]
        accepted == level >= logger.level.val
    IN  /\ logger.level.some
        /\ ret' = [op |-> "log", name |-> name, level |-> level,
                   accepted |-> accepted,
                   emitted |-> IF accepted
                               THEN SelectSeq(logger.handlers, LAMBDA h : level >= h.level)
                               ELSE <<>>]
        /\ UNCHANGED <<env, dotenv, cwd, dirs, files, loggers, bootstrap>>

-----------------------------------------------------------------------------
(* ensure_directories                                                      *)

Tmp == <<"/", "tmp">>

Home == <<"/", "home">>

IsAzureCloudMutant(e) == IsSet(e, "WEBSITE_INSTANCE_ID") /\ e["WEBSITE_INSTANCE_ID"] # <<>>

\* os.environ.get("WEBSITE_INSTANCE_ID") is not None
IsAzureCloud(e) == IsSet(e, "WEBSITE_INSTANCE_ID")

BaseDir == IF IsAzureCloud(env) THEN Tmp ELSE cwd

EnsureDirectories ==
    LET logs_dir       == Join(BaseDir, "logs")
        rtr_result_dir == Join(BaseDir, "rtr-result")
        first          == MakeDirs(dirs, files, logs_dir)
        second         == IF first.raised = "none"
                          THEN MakeDirs(first.dirs, files, rtr_result_dir)
                          ELSE first
        returned       == <<logs_dir, rtr_result_dir>>
    IN  /\ dirs' = second.dirs
        /\ ret' = IF second.raised = "none"
                  THEN [op |-> "ensure_directories", raised |-> "none", value |-> returned]
                  ELSE [op |-> "ensure_directories", raised |-> second.raised]
        /\ bootstrap' = IF second.raised = "none"
                        THEN Some([marker |-> IsAzureCloud(env), value |-> returned,
                                   repeat |-> /\ bootstrap.some
                                              /\ bootstrap.val.marker = IsAzureCloud(env)])
                        ELSE bootstrap
        /\ UNCHANGED <<env, dotenv, cwd, files, loggers>>

-----------------------------------------------------------------------------
(* The environments get_env_config is run on.                              *)

ScriptAlphabet == {"a", "b", ",", " "}

Strings(alphabet, n) == UNION {[1..k -> alphabet] : k \in 0..n}

ScriptValues ==
    Strings(ScriptAlphabet, MaxLen)
        \cup {<<"a", ",", " ", ",", " ", "b", " ", ",", "a">>,
              <<"\t", ",", " ", "\t">>}

UploadValues ==
    {<<"Y", "E", "S">>, <<"T", "r", "u", "e">>, <<"1">>, <<"n", "o">>,
     <<>>, <<"y", "e", "s", " ">>}

MaxRetriesValues ==
    {<<"7">>, <<" ", "3", "\t">>, <<"-", "1">>, <<"a", "b", "c">>, <<>>}

RetryDelayValues ==
    {<<"1", "2">>, <<"1", "_", "0">>, <<"1", ".", "5">>, <<"+", "2">>}

Optional(S) == {None} \cup {Some(v) : v \in S}

\* the environment in which exactly the variables given a value are set
MkEnv(given) == [k \in {n \in DOMAIN given : given[n].some} |-> given[k].val]

DotenvFiles ==
    {None,
     Some([MAX_RETRIES |-> <<"4">>]),
     Some([SCRIPT_FILE_NAMES |-> <<"b">>, UPLOAD_TO_BLOODHOUND |-> <<"1">>])}


InitEnv ==
    /\ \E sfn \in Optional(ScriptValues), up \in Optional(UploadValues),
          mr \in Optional(MaxRetriesValues), rd \in Optional(RetryDelayValues) :
          env = MkEnv([SCRIPT_FILE_NAMES |-> sfn, UPLOAD_TO_BLOODHOUND |-> up,
                       MAX_RETRIES |-> mr, RETRY_DELAY |-> rd])
    /\ dotenv \in DotenvFiles
    /\ cwd = Home
    /\ dirs = {Root, Home}
    /\ files = {}
    /\ loggers = [n \in LoggerNames |-> NoLogger]
    /\ bootstrap = None
    /\ ret = [op |-> "none"]

NextEnv == GetEnvConfig

SpecEnv == InitEnv /\ [][NextEnv]_vars

-----------------------------------------------------------------------------
(* The whole module: the three operations and logging, in any order, from  *)
(* the states a process can start in.                                      *)

\* the logfile arguments setup_logger is called with
Logfiles ==
    {None, Some(<<>>), Some(<<"logs", "run.log">>), Some(<<"logs">>)}

Init ==
    /\ \E marker \in Optional({<<>>}) :
          env = MkEnv([SCRIPT_FILE_NAMES |-> Some(<<"a">>), WEBSITE_INSTANCE_ID |-> marker])
    /\ dotenv \in {None, Some([WEBSITE_INSTANCE_ID |-> <<"1">>])}
    /\ cwd = Home
    /\ \E tmp \in SUBSET {Tmp},
          made \in SUBSET {Join(cwd, "logs"), Join(cwd, "rtr-result")} :
          dirs = {Root, cwd} \cup tmp \cup made
    /\ files \in {{}, {Join(cwd, "rtr-result")}}
    /\ files \cap dirs = {}
    /\ loggers = [n \in LoggerNames |-> NoLogger]
    /\ bootstrap = None
    /\ ret = [op |-> "none"]

Next ==
    \/ \E name \in LoggerNames, logfile \in Logfiles : SetupLogger(name, logfile)
    \/ \E name \in LoggerNames, level \in Levels : Log(name, level)
    \/ GetEnvConfig
    \/ EnsureDirectories

Spec == Init /\ [][Next]_vars

-----------------------------------------------------------------------------
(* Properties of get_env_config, checked under SpecEnv.  After a call env  *)
(* is the environment the call read: load_dotenv has run.                  *)

Called == ret.op = "get_env_config"

Returned == Called /\ ret.raised = "none"

ScriptsUnsetOrEmpty ==
    "SCRIPT_FILE_NAMES" \notin DOMAIN env \/ env["SCRIPT_FILE_NAMES"] = <<>>

\* C2: whenever SCRIPT_FILE_NAMES is unset or the empty string when it is read,
\* get_env_config raises ValueError and returns no configuration record,
\* whatever UPLOAD_TO_BLOODHOUND, MAX_RETRIES and RETRY_DELAY hold.
C2_HardFailure ==
    (Called /\ ScriptsUnsetOrEmpty)
        => (ret.raised = "ValueError" /\ "value" \notin DOMAIN ret)

C2_Witness ==
    /\ Called
    /\ "SCRIPT_FILE_NAMES" \in DOMAIN env
    /\ env["SCRIPT_FILE_NAMES"] = <<>>
    /\ "MAX_RETRIES" \in DOMAIN env
    /\ env["MAX_RETRIES"] = <<"a", "b", "c">>
    /\ "UPLOAD_TO_BLOODHOUND" \in DOMAIN env
    /\ "RETRY_DELAY" \in DOMAIN env
    /\ ret.raised = "ValueError"

\* What Python's int() makes of the values the optional variables take here:
\* the integer, or None where int() raises ValueError.
IntMeaning(v) ==
    CASE v = <<"7">> -> Some(7)
      [] v = <<"4">> -> Some(4)
      [] v = <<" ", "3", "\t">> -> Some(3)
      [] v = <<"-", "1">> -> Some(-1)
      [] v = <<"1", "2">> -> Some(12)
      [] v = <<"1", "_", "0">> -> Some(10)
      [] v = <<"+", "2">> -> Some(2)
      [] v = <<"a", "b", "c">> -> None
      [] v = <<"1", ".", "5">> -> None
      [] v = <<>> -> None

ParsedOrDefault(name, default) ==
    IF name \notin DOMAIN env THEN default
    ELSE IF IntMeaning(env[name]).some THEN IntMeaning(env[name]).val
    ELSE default

\* C3: with SCRIPT_FILE_NAMES valid the call returns whatever MAX_RETRIES and
\* RETRY_DELAY hold, and each field is its variable's integer when the value
\* parses and the default (10, 5) when the variable is unset or does not parse,
\* independently of the other variable.
C3_SoftFailure ==
    (Called /\ ~ScriptsUnsetOrEmpty)
        => /\ ret.raised = "none"
           /\ ret.value.max_retries = ParsedOrDefault("MAX_RETRIES", 10)
           /\ ret.value.retry_delay = ParsedOrDefault("RETRY_DELAY", 5)

C3_Witness ==
    /\ Returned
    /\ "MAX_RETRIES" \in DOMAIN env
    /\ env["MAX_RETRIES"] = <<"a", "b", "c">>
    /\ "RETRY_DELAY" \in DOMAIN env
    /\ env["RETRY_DELAY"] = <<"1", "2">>
    /\ ret.value.max_retries = 10
    /\ ret.value.retry_delay = 12

\* The reference for script_names, stated on positions: the pieces of value are
\* the stretches between consecutive cuts (the commas and the two ends); a piece
\* with a non-whitespace character survives, as the stretch from its first to
\* its last such character; the survivors come in the order of their pieces.
ReferenceNames(value) ==
    LET n         == Len(value)
        cuts      == {0, n + 1} \cup {i \in 1..n : value[i] = ","}
        after(c)  == CHOOSE d \in cuts : d > c /\ \A e \in cuts : e > c => d <= e
        solid(c)  == {i \in (c + 1)..(after(c) - 1) : value[i] \notin {" ", "\t"}}
        live      == {c \in cuts \ {n + 1} : solid(c) # {}}
        nth(k)    == CHOOSE c \in live : Cardinality({d \in live : d < c}) = k - 1
        lo(c)     == CHOOSE i \in solid(c) : \A j \in solid(c) : i <= j
        hi(c)     == CHOOSE i \in solid(c) : \A j \in solid(c) : j <= i
    IN  [k \in 1..Cardinality(live) |-> SubSeq(value, lo(nth(k)), hi(nth(k)))]

\* C4: for every non-empty SCRIPT_FILE_NAMES the returned script_names is the
\* reference: the comma-separated pieces, trimmed, the empty ones dropped, in
\* their order and with duplicates kept; every entry is non-empty and has no
\* leading or trailing whitespace.
C4_ScriptNames ==
    (Called /\ ~ScriptsUnsetOrEmpty)
        => /\ ret.raised = "none"
           /\ ret.value.script_names = ReferenceNames(env["SCRIPT_FILE_NAMES"])
           /\ \A k \in 1..Len(ret.value.script_names) :
                 LET entry == ret.value.script_names[k]
                 IN  /\ entry # <<>>
                     /\ entry[1] \notin {" ", "\t"}
                     /\ entry[Len(entry)] \notin {" ", "\t"}
                     /\ \A i \in 1..Len(entry) : entry[i] # ","

C4_Witness ==
    /\ Returned
    /\ env["SCRIPT_FILE_NAMES"] = <<"a", ",", " ", ",", " ", "b", " ", ",", "a">>
    /\ ret.value.script_names = << <<"a">>, <<"b">>, <<"a">> >>

\* C7: with SCRIPT_FILE_NAMES valid, upload_to_bh is true exactly when
\* UPLOAD_TO_BLOODHOUND is set and its value, lower-cased, is "1", "true" or
\* "yes"; it is false when the variable is unset and for every other value.
C7_UploadFlag ==
    (Called /\ ~ScriptsUnsetOrEmpty)
        => /\ ret.raised = "none"
           /\ ret.value.upload_to_bh
                 = /\ "UPLOAD_TO_BLOODHOUND" \in DOMAIN env
                   /\ env["UPLOAD_TO_BLOODHOUND"]
                         \in {<<"1">>, <<"Y", "E", "S">>, <<"T", "r", "u", "e">>}

C7_Witness ==
    /\ Returned
    /\ "UPLOAD_TO_BLOODHOUND" \in DOMAIN env
    /\ env["UPLOAD_TO_BLOODHOUND"] = <<"Y", "E", "S">>
    /\ ret.value.upload_to_bh

OnlyCommasAndWhitespace(value) == \A i \in 1..Len(value) : value[i] \in {",", " ", "\t"}

\* C9: only an unset or empty SCRIPT_FILE_NAMES makes get_env_config fail; a
\* non-empty value of nothing but commas and whitespace raises no error and
\* gives a record whose script_names is the empty sequence.
C9_BlankNames ==
    Called
        => /\ ret.raised = "ValueError" => ScriptsUnsetOrEmpty
           /\ (~ScriptsUnsetOrEmpty /\ OnlyCommasAndWhitespace(env["SCRIPT_FILE_NAMES"]))
                 => (ret.raised = "none" /\ ret.value.script_names = <<>>)

C9_Witness ==
    /\ Returned
    /\ env["SCRIPT_FILE_NAMES"] = <<" ", ",", " ">>
    /\ ret.value.script_names = <<>>

-----------------------------------------------------------------------------
(* Properties of setup_logger and of logging through the loggers it        *)
(* returns, checked under Spec.                                            *)

Handlers(name) == loggers[name].handlers

Count(name, kind) ==
    Cardinality({i \in 1..Len(Handlers(name)) : Handlers(name)[i].kind = kind})

\* the logger holds one console handler and, when withFile, one file handler
\* on path and otherwise none, every one of them made by the last call
ExactlyTheTargets(name, withFile, path) ==
    /\ \A i \in 1..Len(Handlers(name)) : Handlers(name)[i].fresh
    /\ Count(name, "StreamHandler") = 1
    /\ Count(name, "FileHandler") = IF withFile THEN 1 ELSE 0
    /\ withFile => \E i \in 1..Len(Handlers(name)) :
                      /\ Handlers(name)[i].kind = "FileHandler"
                      /\ Handlers(name)[i].baseFilename = path

GaveLogfile(call) == call.logfile.some /\ call.logfile.val # <<>>

\* C1 as stated: after any sequence of setup_logger calls on a name the logger
\* holds exactly one console handler, plus exactly one file handler for the last
\* call's logfile if and only if that call gave a logfile, and nothing an
\* earlier call attached.
C1_AsStated ==
    \A name \in LoggerNames :
        loggers[name].last.some
            => LET call == loggers[name].last.val
               IN  ExactlyTheTargets(name, GaveLogfile(call),
                                     IF GaveLogfile(call) THEN cwd \o call.logfile.val
                                     ELSE <<>>)

\* C1 as amended: the same, with the file handler present if and only if the
\* last call gave a logfile and opened it; a last call whose open failed leaves
\* the console handler alone.
C1_LastCallTargets ==
    \A name \in LoggerNames :
        loggers[name].last.some
            => LET call   == loggers[name].last.val
                   opened == GaveLogfile(call) /\ call.raised = "none"
               IN  ExactlyTheTargets(name, opened,
                                     IF opened THEN cwd \o call.logfile.val ELSE <<>>)

C1_Witness ==
    \E name \in LoggerNames :
        /\ loggers[name].last.some
        /\ loggers[name].last.val.held = 1
        /\ loggers[name].last.val.logfile = Some(<<"logs", "run.log">>)
        /\ loggers[name].last.val.raised = "none"
        /\ Len(Handlers(name)) = 2

\* C10: when setup_logger is given a logfile and opening it fails, the error
\* reaches the caller and the logger does not keep what it had: it holds exactly
\* one handler, the new console handler, and no file handler.
C10_FailedOpen ==
    /\ \A name \in LoggerNames :
          (loggers[name].last.some /\ loggers[name].last.val.raised # "none")
              => /\ GaveLogfile(loggers[name].last.val)
                 /\ Len(Handlers(name)) = 1
                 /\ Handlers(name)[1].kind = "StreamHandler"
                 /\ Handlers(name)[1].fresh
    /\ ret.op = "setup_logger"
          => /\ ret.raised = loggers[ret.name].last.val.raised
             /\ ret.raised \in {"none", "IsADirectoryError", "NotADirectoryError",
                                "FileNotFoundError"}

C10_Witness ==
    \E name \in LoggerNames :
        /\ ret.op = "setup_logger"
        /\ ret.name = name
        /\ ret.raised = "IsADirectoryError"
        /\ loggers[name].last.val.held = 2
        /\ Handlers(name) = <<StreamHandler>>

\* C8: a logger setup_logger returned takes a message of every severity; the
\* message goes to the console handler exactly when its severity is INFO or
\* above, and to the file handler, when there is one, at DEBUG and above: a
\* DEBUG message reaches the file and never the console.
C8_Thresholds ==
    ret.op = "log"
        => LET to(kind) == \E i \in 1..Len(ret.emitted) : ret.emitted[i].kind = kind
           IN  /\ ret.accepted
               /\ to("StreamHandler") = (ret.level >= 20)
               /\ Count(ret.name, "StreamHandler") = 1
               /\ Count(ret.name, "FileHandler") <= 1
               /\ Count(ret.name, "FileHandler") = 1
                     => to("FileHandler") = (ret.level >= 10)
               /\ Count(ret.name, "FileHandler") = 0 => ~to("FileHandler")
               /\ Len(ret.emitted) <= Len(Handlers(ret.name))

C8_Witness ==
    /\ ret.op = "log"
    /\ ret.level = 10
    /\ Len(Handlers(ret.name)) = 2
    /\ Len(ret.emitted) = 1
    /\ ret.emitted[1].kind = "FileHandler"

-----------------------------------------------------------------------------
(* Properties of ensure_directories, checked under Spec.                   *)

\* C5: the base directory is /tmp exactly when WEBSITE_INSTANCE_ID is in the
\* environment, with any value, and the working directory exactly when it is
\* unset; the call returns (base/logs, base/rtr-result) in that order.
C5_BaseDirectory ==
    (ret.op = "ensure_directories" /\ ret.raised = "none")
        => ret.value = IF "WEBSITE_INSTANCE_ID" \in DOMAIN env
                       THEN << <<"/", "tmp", "logs">>, <<"/", "tmp", "rtr-result">> >>
                       ELSE << cwd \o <<"logs">>, cwd \o <<"rtr-result">> >>

C5_Witness ==
    /\ ret.op = "ensure_directories"
    /\ ret.raised = "none"
    /\ "WEBSITE_INSTANCE_ID" \in DOMAIN env
    /\ env["WEBSITE_INSTANCE_ID"] = <<>>
    /\ ret.value[1] = <<"/", "tmp", "logs">>

\* C6: after a call that returned, both returned directories exist, and they
\* go on existing; a further call with the deployment marker as it was at that
\* call raises nothing, returns the same pair and leaves the directories and
\* files that exist as they are.
C6_Idempotent ==
    [][/\ bootstrap'.some
             => (bootstrap'.val.value[1] \in dirs' /\ bootstrap'.val.value[2] \in dirs')
       /\ (/\ ret'.op = "ensure_directories"
           /\ EnsureDirectories
           /\ bootstrap.some
           /\ bootstrap.val.marker = ("WEBSITE_INSTANCE_ID" \in DOMAIN env))
             => /\ ret'.raised = "none"
                /\ ret'.value = bootstrap.val.value
                /\ dirs' = dirs
                /\ files' = files]_vars

C6_Witness ==
    /\ ret.op = "ensure_directories"
    /\ ret.raised = "none"
    /\ bootstrap.some
    /\ bootstrap.val.repeat
    /\ bootstrap.val.value = ret.value
    /\ ret.value[1] \in dirs
    /\ ret.value[2] \in dirs

=============================================================================
